---- MODULE Spec2Model ----
(***************************************************************************)
(* Model of agent/run.py, the Daily Line Sheet Agent: one run of the       *)
(* curation pipeline (provision, credential, acquire, screen, select,      *)
(* render, approval) over the five subareas of one run directory.          *)
(*                                                                         *)
(* External collaborators are nondeterministic: the search endpoint picks  *)
(* the result list, each image GET picks a status and the bytes returned.  *)
(* A file's content is the number of an image in the table Images; a byte  *)
(* copy keeps that number.  A file name is a record of its stem and the    *)
(* decimal digits that the format specification produced.                  *)
(***************************************************************************)
EXTENDS Integers, Sequences, FiniteSets, TLC

VARIABLES
    pc,                \* position of main(): the call it will make next
    err,               \* "none", or the error that aborted the run
    config,            \* AgentConfig: candidates_to_download, sheets_to_generate
    env_key,           \* os.environ.get("PEXELS_API_KEY"): Unset, "" or a key
    search_log,        \* every search request issued so far: status, result count
    dirs,              \* the subareas of the run directory that exist
    photos,            \* tool_download_pexels_images: the truncated result list
    idx,               \* ... the 1-based position of the loop in photos
    attempt,           \* ... the attempt (1..3) about to be made for photos[idx]
    downloaded_paths,  \* ... the list it returns
    manifest,          \* ... the manifest dict, in memory
    log,               \* every image GET issued so far: <<idx, status>>
    raw,               \* raw/    : file name -> content
    ok,                \* ok/     : file name -> content
    picks,             \* picks/  : file name -> content
    sheets,            \* sheets/ : file name -> rendered worksheet
    review             \* review/ : report name -> persisted document

vars == <<pc, err, config, env_key, search_log, dirs, photos, idx, attempt,
          downloaded_paths, manifest, log, raw, ok, picks, sheets, review>>

-----------------------------------------------------------------------------
(* Bounds of the model *)

\* largest candidates_to_download a run of Spec is configured with
MaxCand == 2
\* largest sheets_to_generate a run of Spec is configured with
MaxSheets == 2
\* largest width and height of the pick images of SpecLayout
MaxDim == 12

(* Constants of the program *)

PerPageMax == 80
MaxAttempts == 3
min_short_side == 1600
\* max_aspect_ratio = 2.5, kept as the fraction 5/2
max_aspect_num == 5
max_aspect_den == 2
\* letter, the page size in points
page_w == 612
page_h == 792
margin == 36
img_box_w == 240
img_box_h == 180
rubric_h == 120

-----------------------------------------------------------------------------
(* Arithmetic and Python helpers *)

Min(a, b) == IF a <= b THEN a ELSE b
Max(a, b) == IF a >= b THEN a ELSE b
Abs(a) == IF a >= 0 THEN a ELSE 0 - a

\* seq[:k] as Python slices: a negative k counts from the end
PySlicePrefix(s, k) ==
    IF k >= 0 THEN SubSeq(s, 1, Min(k, Len(s)))
    ELSE SubSeq(s, 1, Max(0, Len(s) + k))

RECURSIVE Digits(_)
\* the decimal digits of n >= 0, most significant first
Digits(n) == IF n < 10 THEN <<n>> ELSE Digits(n \div 10) \o <<n % 10>>

\* format specification {n:0<width>d}: zero padded to at least width digits
ZeroPad(n, width) ==
    LET ds == Digits(n)
    IN  IF Len(ds) >= width THEN ds
        ELSE [i \in 1..(width - Len(ds)) |-> 0] \o ds

\* The variant of RawName that numbers the files by the count of files written.
RawName_by_count(i) ==
    [stem |-> "pexels_", digits |-> ZeroPad(Len(downloaded_paths) + 1, 4),
     ext |-> ".jpg"]

\* f"pexels_{idx:04d}.jpg"
RawName(i) == [stem |-> "pexels_", digits |-> ZeroPad(i, 4), ext |-> ".jpg"]

\* the variant of PickName that formats the rank without zero padding
PickName_unpadded(i) == [stem |-> "pick_", digits |-> Digits(i), ext |-> ".jpg"]

\* f"pick_{i:02d}.jpg"
PickName(i) == [stem |-> "pick_", digits |-> ZeroPad(i, 2), ext |-> ".jpg"]

\* f"worksheet_{i:02d}.pdf"
WorksheetName(i) == [stem |-> "worksheet_", digits |-> ZeroPad(i, 2), ext |-> ".pdf"]

\* String order of two names of one directory (same stem, same extension):
\* the digit strings decide, and a digit string that is a proper prefix of
\* the other sorts first because "." is smaller than every digit.
NameLess(a, b) ==
    LET x == a.digits
        y == b.digits
    IN  \/ \E k \in 1..Min(Len(x), Len(y)) :
              /\ \A j \in 1..(k - 1) : x[j] = y[j]
              /\ x[k] < y[k]
        \/ /\ Len(x) < Len(y)
           /\ \A j \in 1..Len(x) : x[j] = y[j]

RECURSIVE SortedNames(_)
\* sorted(dir.glob(pattern)) over the set S of matching names: the names
\* before the middle one, the middle one, the names after it
SortedNames(S) ==
    IF S = {} THEN <<>>
    ELSE LET half == Cardinality(S) \div 2
             split == {[mid |-> x,
                        before |-> {y \in S : NameLess(y, x)},
                        after |-> {y \in S : NameLess(x, y)}] :
                       x \in {z \in S : Cardinality({y \in S : NameLess(y, z)}) = half}}
         IN  CHOOSE r \in {SortedNames(p.before) \o <<p.mid>> \o SortedNames(p.after) :
                           p \in split} : TRUE

EmptyDir == [n \in {} |-> 0]

-----------------------------------------------------------------------------
(* The images the fetch collaborator can return.  header: Image.open       *)
(* succeeds and gives the size; pixels: the pixel data decodes (im.copy).  *)
(* stddev is the grayscale standard deviation of the thumbnail, msg the    *)
(* text of the decoder's exception.                                        *)

Images ==
    <<[header |-> FALSE, pixels |-> FALSE, w |-> 0, h |-> 0, stddev |-> 0,
       msg |-> "cannot identify image file"],
      [header |-> TRUE, pixels |-> TRUE, w |-> 1599, h |-> 2400, stddev |-> 64,
       msg |-> ""],
      [header |-> TRUE, pixels |-> TRUE, w |-> 4001, h |-> 1600, stddev |-> 64,
       msg |-> ""],
      [header |-> TRUE, pixels |-> TRUE, w |-> 1600, h |-> 4000, stddev |-> 32,
       msg |-> ""],
      [header |-> TRUE, pixels |-> TRUE, w |-> 1600, h |-> 2000, stddev |-> 64,
       msg |-> ""],
      [header |-> TRUE, pixels |-> TRUE, w |-> 1600, h |-> 2000, stddev |-> 64,
       msg |-> ""],
      [header |-> TRUE, pixels |-> FALSE, w |-> 1600, h |-> 2000, stddev |-> 0,
       msg |-> "image file is truncated"]>>

ImageIds == 1..Len(Images)

\* the content of a decodable image file of w x h pixels that is not in the
\* table
SizedImage(w, h) == 100 * w + h

\* what the decoder finds in a file
ImageOf(content) ==
    IF content \in ImageIds THEN Images[content]
    ELSE [header |-> TRUE, pixels |-> TRUE, w |-> content \div 100,
          h |-> content % 100, stddev |-> 0, msg |-> ""]

-----------------------------------------------------------------------------
(* main(): configuration, run folders, credential *)

Subareas == {"raw", "ok", "picks", "sheets", "review"}

\* os.environ.get of a variable that is not set
Unset == "<unset>"

Init ==
    /\ pc = "create_run_folders"
    /\ err = "none"
    /\ config \in [candidates_to_download : 0..MaxCand,
                   sheets_to_generate : (0 - 1)..MaxSheets]
    /\ env_key \in {Unset, "", "secret"}
    /\ search_log = <<>>
    /\ dirs = {}
    /\ photos = <<>>
    /\ idx = 0
    /\ attempt = 0
    /\ downloaded_paths = <<>>
    /\ manifest = [requested |-> 0, downloaded |-> 0, items |-> <<>>]
    /\ log = <<>>
    /\ raw = EmptyDir
    /\ ok = EmptyDir
    /\ picks = EmptyDir
    /\ sheets = EmptyDir
    /\ review = EmptyDir

\* the order of the loop of tool_create_run_folders
SubareaOrder == <<"raw", "ok", "picks", "sheets", "review">>

\* the files of a subarea
Contents(name) ==
    CASE name = "raw" -> raw
      [] name = "ok" -> ok
      [] name = "picks" -> picks
      [] name = "sheets" -> sheets
      [] name = "review" -> review

\* The variant of Mkdir without exist_ok: an existing directory is an error.
Mkdir_no_exist_ok(exists, contents) ==
    [error |-> exists, contents |-> contents]

\* Path.mkdir(parents=True, exist_ok=True) on a directory that exists or
\* not, with the files it holds: never an error, the files stay
Mkdir(exists, contents) ==
    [error |-> FALSE, contents |-> contents]

\* tool_generate_run_id and tool_create_run_folders: the five mkdir calls in
\* order; the first one that raises ends the run
CreateRunFolders ==
    /\ pc = "create_run_folders"
    /\ LET made(i) == Mkdir(SubareaOrder[i] \in dirs, Contents(SubareaOrder[i]))
           failing == {i \in 1..Len(SubareaOrder) : made(i).error}
           reached == IF failing = {} THEN Len(SubareaOrder)
                      ELSE (CHOOSE i \in failing : \A j \in failing : i <= j) - 1
       IN  /\ dirs' = dirs \cup {SubareaOrder[i] : i \in 1..reached}
           /\ raw' = IF reached >= 1 THEN made(1).contents ELSE raw
           /\ ok' = IF reached >= 2 THEN made(2).contents ELSE ok
           /\ picks' = IF reached >= 3 THEN made(3).contents ELSE picks
           /\ sheets' = IF reached >= 4 THEN made(4).contents ELSE sheets
           /\ review' = IF reached >= 5 THEN made(5).contents ELSE review
           /\ IF failing = {}
              THEN pc' = "get_pexels_key" /\ err' = err
              ELSE pc' = "failed" /\ err' = "mkdir"
    /\ UNCHANGED <<config, env_key, search_log, photos, idx, attempt,
                   downloaded_paths, manifest, log>>

\* The variant of KeyMissing that only tests for an unset variable.
KeyMissing_only_unset(key) == key = Unset

\* "if not key": the variable is unset or empty
KeyMissing(key) == key = Unset \/ key = ""

\* tool_get_pexels_key: raises when the variable is missing or empty
GetPexelsKey ==
    /\ pc = "get_pexels_key"
    /\ IF KeyMissing(env_key)
          THEN pc' = "failed" /\ err' = "no_key"
          ELSE pc' = "search" /\ err' = err
    /\ UNCHANGED <<config, env_key, search_log, dirs, photos, idx, attempt,
                   downloaded_paths, manifest, log, raw, ok, picks, sheets, review>>

-----------------------------------------------------------------------------
(* tool_download_pexels_images *)

\* per_page = min(80, max(1, config.candidates_to_download))
PerPage(n) == Min(PerPageMax, Max(1, n))

\* the result lists the search endpoint can answer a page size with
SearchResults(per_page) ==
    UNION {[1..n -> [has_url : BOOLEAN]] : n \in 0..per_page}

SearchStatuses == {200, 500}

\* The variant of SearchOutcome without the check of an empty result list.
SearchOutcome_unchecked(status, results) ==
    IF status >= 400 THEN "raise_http" ELSE "proceed"

\* resp.raise_for_status(), then "if not photos: raise"
SearchOutcome(status, results) ==
    IF status >= 400 THEN "raise_http"
    ELSE IF results = <<>> THEN "raise_no_results"
    ELSE "proceed"

\* the search request: an HTTP error raises, no result raises, otherwise the
\* list is truncated and the manifest and the loop are set up
Search ==
    /\ pc = "search"
    /\ \E status \in SearchStatuses,
          results \in SearchResults(PerPage(config.candidates_to_download)) :
          LET outcome == SearchOutcome(status, results)
          IN  /\ search_log' = Append(search_log,
                     [status |-> status,
                      results |-> IF status >= 400 THEN 0 ELSE Len(results)])
              /\ CASE outcome = "raise_http" ->
                        /\ pc' = "failed"
                        /\ err' = "search_http"
                        /\ UNCHANGED <<photos, idx, attempt, manifest>>
                   [] outcome = "raise_no_results" ->
                        /\ pc' = "failed"
                        /\ err' = "no_results"
                        /\ UNCHANGED <<photos, idx, attempt, manifest>>
                   [] outcome = "proceed" ->
                        /\ photos' = PySlicePrefix(results,
                                                   config.candidates_to_download)
                        /\ manifest' = [requested |-> config.candidates_to_download,
                                        downloaded |-> 0, items |-> <<>>]
                        /\ idx' = 1
                        /\ attempt' = 1
                        /\ pc' = "download"
                        /\ err' = err
    /\ UNCHANGED <<config, env_key, dirs, downloaded_paths, log, raw, ok, picks,
                   sheets, review>>

\* a result with none of src.original, src.large2x, src.large: continue
SkipNoUrl ==
    /\ pc = "download"
    /\ idx <= Len(photos)
    /\ ~photos[idx].has_url
    /\ idx' = idx + 1
    /\ attempt' = 1
    /\ UNCHANGED <<pc, err, config, env_key, search_log, dirs, photos, downloaded_paths,
                   manifest, log, raw, ok, picks, sheets, review>>

Statuses == {200, 429, 500}

\* The variant of FetchOutcome in which exhausted retries raise.
FetchOutcome_raise_when_exhausted(status, att) ==
    IF status = 429
    THEN IF att < MaxAttempts THEN "retry" ELSE "raise"
    ELSE IF status >= 400 THEN "raise" ELSE "save"

\* The variant of FetchOutcome that retries after every error status.
FetchOutcome_retry_on_error(status, att) ==
    IF status >= 400
    THEN IF att < MaxAttempts THEN "retry" ELSE "give_up"
    ELSE "save"

\* The variant of FetchOutcome with one more attempt per image.
FetchOutcome_four_attempts(status, att) ==
    IF status = 429
    THEN IF att < MaxAttempts + 1 THEN "retry" ELSE "give_up"
    ELSE IF status >= 400 THEN "raise" ELSE "save"

\* what the body of "for attempt in range(1, 4)" does with one response
FetchOutcome(status, att) ==
    IF status = 429
    THEN IF att < MaxAttempts THEN "retry" ELSE "give_up"
    ELSE IF status >= 400 THEN "raise" ELSE "save"

\* str(out_path).replace("\\", "/")
LocalFile(name) == [dir |-> "raw", name |-> name]

\* one session.get(image_url) and what follows its response
Fetch ==
    /\ pc = "download"
    /\ idx <= Len(photos)
    /\ photos[idx].has_url
    /\ \E status \in Statuses, content \in ImageIds :
          LET outcome  == FetchOutcome(status, attempt)
              out_path == RawName(idx)
          IN  /\ log' = Append(log, <<idx, status>>)
              /\ CASE outcome = "retry" ->
                        /\ attempt' = attempt + 1
                        /\ UNCHANGED <<pc, err, idx, raw, downloaded_paths, manifest>>
                   [] outcome = "give_up" ->
                        /\ idx' = idx + 1
                        /\ attempt' = 1
                        /\ UNCHANGED <<pc, err, raw, downloaded_paths, manifest>>
                   [] outcome = "raise" ->
                        /\ pc' = "failed"
                        /\ err' = "fetch_http"
                        /\ UNCHANGED <<idx, attempt, raw, downloaded_paths, manifest>>
                   [] outcome = "save" ->
                        /\ raw' = (out_path :> content) @@ raw
                        /\ downloaded_paths' = Append(downloaded_paths, out_path)
                        /\ manifest' = [manifest EXCEPT !.items =
                               Append(@, [index |-> idx,
                                          pexels_id |-> idx,
                                          local_file |-> LocalFile(out_path)])]
                        /\ idx' = idx + 1
                        /\ attempt' = 1
                        /\ UNCHANGED <<pc, err>>
    /\ UNCHANGED <<config, env_key, search_log, dirs, photos, ok, picks, sheets, review>>

\* after the loop: the count, the manifest file, the return
WriteManifest ==
    /\ pc = "download"
    /\ idx > Len(photos)
    /\ manifest' = [manifest EXCEPT !.downloaded = Len(downloaded_paths)]
    /\ review' = ("pexels_manifest.json" :> manifest') @@ review
    /\ pc' = "screen"
    /\ UNCHANGED <<err, config, env_key, search_log, dirs, photos, idx, attempt,
                   downloaded_paths, log, raw, ok, picks, sheets>>

-----------------------------------------------------------------------------
(* tool_screen_images *)

\* A Python string built from pieces is the sequence of its pieces; a
\* literal is the sequence of one piece.
Str(s) == <<s>>

\* f"unreadable_image: {e}"
UnreadableReason(e) == <<"unreadable_image: ", e>>

\* round(max / short, 2) in hundredths (halves round up)
RoundedAspect(width, height) ==
    LET short == Min(width, height)
        long  == Max(width, height)
    IN  (200 * long + short) \div (2 * short)

\* The variant of ScreenVerdict that compares the rounded aspect ratio.
ScreenVerdict_rounded(img) ==
    IF ~img.header THEN "unreadable"
    ELSE IF Min(img.w, img.h) < min_short_side THEN "resolution_too_low"
    ELSE IF RoundedAspect(img.w, img.h) * max_aspect_den > 100 * max_aspect_num
         THEN "extreme_aspect_ratio"
    ELSE "passed"

\* the branch the loop body takes for one image: the decoder's exception,
\* short_side < min_short_side, aspect_ratio > max_aspect_ratio, or a pass
ScreenVerdict(img) ==
    IF ~img.header THEN "unreadable"
    ELSE IF Min(img.w, img.h) < min_short_side THEN "resolution_too_low"
    ELSE IF Max(img.w, img.h) * max_aspect_den > max_aspect_num * Min(img.w, img.h)
         THEN "extreme_aspect_ratio"
    ELSE "passed"

\* entry after entry.update(...)
Measured(name, img) ==
    [file |-> name, width |-> img.w, height |-> img.h,
     short_side |-> Min(img.w, img.h),
     aspect_ratio |-> RoundedAspect(img.w, img.h)]

\* The variant of ScreenEntry that records an undecodable image without
\* the exception text and labels a passed image.
ScreenEntry_labels(name, img) ==
    LET v == ScreenVerdict(img)
    IN  IF v = "unreadable"
        THEN [file |-> name, reason |-> Str("unreadable_image")]
        ELSE IF v = "passed"
        THEN Measured(name, img) @@ [reason |-> Str("passed")]
        ELSE Measured(name, img) @@ [reason |-> Str(v)]

\* the entry the loop body appends for one image
ScreenEntry(name, img) ==
    LET v == ScreenVerdict(img)
    IN  IF v = "unreadable"
        THEN [file |-> name, reason |-> UnreadableReason(img.msg)]
        ELSE IF v = "passed"
        THEN Measured(name, img)
        ELSE Measured(name, img) @@ [reason |-> Str(v)]

\* The variant of ScreenList that lets the decoder's exception drop the image.
ScreenList_drop_unreadable(img) ==
    IF ScreenVerdict(img) = "passed" THEN {"passed"}
    ELSE IF ScreenVerdict(img) = "unreadable" THEN {}
    ELSE {"failed"}

\* the lists of the report that one iteration of the loop appends its entry to
ScreenList(img) ==
    IF ScreenVerdict(img) = "passed" THEN {"passed"} ELSE {"failed"}

\* the loop over sorted(raw_dir.glob("*.jpg")): the entries a list receives
ScreenAll(list, names, dir) ==
    LET each == [i \in 1..Len(names) |->
                    [lists |-> ScreenList(Images[dir[names[i]]]),
                     entry |-> ScreenEntry(names[i], Images[dir[names[i]]])]]
        In(e) == list \in e.lists
        kept == SelectSeq(each, In)
    IN  [i \in 1..Len(kept) |-> kept[i].entry]

\* the names of the entries of a report list
Files(entries) == {entries[i].file : i \in 1..Len(entries)}

\* the whole of tool_screen_images: the loop, the copies into ok/ and the report
ScreenImages ==
    /\ pc = "screen"
    /\ \E names \in {SortedNames(DOMAIN raw)} :
       \E report \in {[criteria |-> [min_short_side |-> min_short_side,
                                     max_aspect_ratio |-> <<max_aspect_num,
                                                            max_aspect_den>>],
                       passed |-> ScreenAll("passed", names, raw),
                       failed |-> ScreenAll("failed", names, raw)]} :
          LET copied == Files(report.passed)
          IN  /\ ok' = [n \in DOMAIN ok \cup copied |->
                           IF n \in copied THEN raw[n] ELSE ok[n]]
              /\ review' = ("screening_report.json" :> report) @@ review
    /\ pc' = "select"
    /\ UNCHANGED <<err, config, env_key, search_log, dirs, photos, idx, attempt,
                   downloaded_paths, manifest, log, raw, picks, sheets>>

-----------------------------------------------------------------------------
(* tool_select_best_images.  Scores are in thousandths, as the report      *)
(* rounds them to three decimals.                                          *)

\* The variant of TargetCount without the floor of 1.
TargetCount_unfloored(sheets_to_generate) == sheets_to_generate

\* target_count = max(1, config.sheets_to_generate)
TargetCount(sheets_to_generate) == Max(1, sheets_to_generate)

\* target_ratios = [4/5, 3/4, 2/3]
target_ratios == <<<<4, 5>>, <<3, 4>>, <<2, 3>>>>

\* math.log(short_side), for the short sides of Images
LnMilli(short_side) ==
    CASE short_side = 1599 -> 7377
      [] short_side = 1600 -> 7378
      [] OTHER -> 0

\* 1 / (1 + |w/h - a/b|) for one target ratio a/b
AspectFit(w, h, tr) ==
    (1000 * h * tr[2]) \div (h * tr[2] + Abs(w * tr[2] - tr[1] * h))

\* ar_score: the minimum distance gives the maximum fit
AspectMilli(w, h) ==
    LET fits == {AspectFit(w, h, target_ratios[i]) : i \in 1..Len(target_ratios)}
    IN  CHOOSE f \in fits : \A g \in fits : g <= f

\* stat.stddev[0] / 64.0
DetailMilli(stddev) == (1000 * stddev) \div 64

\* total = res_score * 1.0 + ar_score * 2.0 + detail_score * 1.5
Total(img) ==
    LnMilli(Min(img.w, img.h)) + 2 * AspectMilli(img.w, img.h)
        + (3 * DetailMilli(img.stddev)) \div 2

\* the dict appended to scored for one image
ScoreEntry(name, img) ==
    [file |-> name, width |-> img.w, height |-> img.h,
     short_side |-> Min(img.w, img.h),
     scores |-> [resolution |-> LnMilli(Min(img.w, img.h)),
                 aspect |-> AspectMilli(img.w, img.h),
                 detail |-> DetailMilli(img.stddev)],
     total |-> Total(img)]

\* The variant of SortDesc that sorts ascending and reverses the list, which
\* turns the entries of equal total around.
SortDesc_reversed_ties(s) ==
    LET numbered == [i \in 1..Len(s) |-> [pos |-> i, item |-> s[i]]]
        Before(a, b) == \/ a.item.total > b.item.total
                        \/ a.item.total = b.item.total /\ a.pos > b.pos
        sorted == SortSeq(numbered, Before)
    IN  [r \in 1..Len(s) |-> sorted[r].item]

\* scored.sort(key=lambda x: x["total"], reverse=True).  The sort is stable:
\* an entry stands before the entries of smaller total and before the later
\* entries of equal total.
SortDesc(s) ==
    LET numbered == [i \in 1..Len(s) |-> [pos |-> i, item |-> s[i]]]
        Before(a, b) == \/ a.item.total > b.item.total
                        \/ a.item.total = b.item.total /\ a.pos < b.pos
        sorted == SortSeq(numbered, Before)
    IN  [r \in 1..Len(s) |-> sorted[r].item]

\* The variant of PickDest that keeps the candidate's own number.
PickDest_by_candidate(i, item) ==
    [stem |-> "pick_", digits |-> SubSeq(item.file.digits, 3, 4), ext |-> ".jpg"]

\* dst = picks_dir / f"pick_{i:02d}.jpg"
PickDest(i, item) == PickName(i)

\* whether Image.open, im.size and im.copy all succeed on a file
Scoreable(content) == ImageOf(content).header /\ ImageOf(content).pixels

\* the entries of scored, in the order of sorted(ok_dir.glob("*.jpg"))
ScoreAll(names, dir) ==
    [i \in 1..Len(names) |-> ScoreEntry(names[i], Images[dir[names[i]]])]

\* The variant of SelectionReportPath that reuses the screening report's name.
SelectionReportPath_screening == "screening_report.json"

\* report_path = review_dir / "selection_report.json"
SelectionReportPath == "selection_report.json"

\* the whole of tool_select_best_images: score, sort, copy the picks, report
SelectBestImages ==
    /\ pc = "select"
    /\ IF \E n \in DOMAIN ok : ~Scoreable(ok[n])
       THEN /\ pc' = "failed"
            /\ err' = "select_decode"
            /\ UNCHANGED <<picks, review>>
       ELSE \E names \in {SortedNames(DOMAIN ok)} :
            \E scored \in {SortDesc(ScoreAll(names, ok))} :
            \E chosen \in {PySlicePrefix(scored,
                                         TargetCount(config.sheets_to_generate))} :
            \E dst \in {[i \in 1..Len(chosen) |-> PickDest(i, chosen[i])]} :
               LET K       == Len(chosen)
                   written == {dst[i] : i \in 1..K}
                   \* a later copy to the same name replaces an earlier one
                   last(n) == LET is == {i \in 1..K : dst[i] = n}
                              IN  CHOOSE i \in is : \A j \in is : j <= i
                   \* item["picked_as"] = dst.name, on the dict both lists hold
                   selected == [i \in 1..K |-> chosen[i] @@ [picked_as |-> dst[i]]]
                   report  == [target_count |-> TargetCount(config.sheets_to_generate),
                               selected |-> selected,
                               all_scored |-> selected \o
                                   SubSeq(scored, K + 1, Len(scored))]
               IN  /\ picks' = [n \in DOMAIN picks \cup written |->
                                   IF n \in written THEN ok[chosen[last(n)].file]
                                   ELSE picks[n]]
                   /\ review' = (SelectionReportPath :> report) @@ review
                   /\ pc' = "render"
                   /\ err' = err
    /\ UNCHANGED <<config, env_key, search_log, dirs, photos, idx, attempt, downloaded_paths,
                   manifest, log, raw, ok, sheets>>

-----------------------------------------------------------------------------
(* tool_render_worksheet_pdfs and tool_write_approval_placeholder *)

\* The float n / d as the exact fraction of two integers, d > 0; fractions
\* are not reduced and are compared by cross multiplication.
Rat(n, d) == [n |-> n, d |-> d]

REq(a, b) == a.n * b.d = b.n * a.d
RLeq(a, b) == a.n * b.d <= b.n * a.d
RMin(a, b) == IF RLeq(a, b) THEN a ELSE b
RMax(a, b) == IF RLeq(a, b) THEN b ELSE a
RAdd(a, b) == Rat(a.n * b.d + b.n * a.d, a.d * b.d)
RSub(a, b) == Rat(a.n * b.d - b.n * a.d, a.d * b.d)
RMul(a, b) == Rat(a.n * b.n, a.d * b.d)
RHalf(a) == Rat(a.n, 2 * a.d)

\* The variant of FitScale that fills the box instead of fitting into it.
FitScale_fill(iw, ih) == RMax(Rat(img_box_w, iw), Rat(img_box_h, ih))

\* scale = min(img_box_w / iw, img_box_h / ih)
FitScale(iw, ih) == RMin(Rat(img_box_w, iw), Rat(img_box_h, ih))

top_y == page_h - margin
img_x == margin
img_y == top_y - 16 - 14 - img_box_h
tips_x == img_x + img_box_w + 24
draw_box_y == margin + 140

\* the rectangles of one page, each with its lower left corner, width and
\* height in points: the four c.rect calls and the c.drawImage call
Layout(iw, ih) ==
    LET scale  == FitScale(iw, ih)
        draw_w == RMul(Rat(iw, 1), scale)
        draw_h == RMul(Rat(ih, 1), scale)
        dx == RAdd(Rat(img_x, 1), RHalf(RSub(Rat(img_box_w, 1), draw_w)))
        dy == RAdd(Rat(img_y, 1), RHalf(RSub(Rat(img_box_h, 1), draw_h)))
    IN  [img_box  |-> [x |-> img_x, y |-> img_y, w |-> img_box_w, h |-> img_box_h],
         image    |-> [x |-> dx, y |-> dy, w |-> draw_w, h |-> draw_h],
         tips     |-> [x |-> tips_x, y |-> img_y,
                       w |-> page_w - margin - tips_x, h |-> img_box_h],
         draw_box |-> [x |-> margin, y |-> draw_box_y,
                       w |-> page_w - 2 * margin,
                       h |-> (img_y - 24) - draw_box_y],
         rubric   |-> [x |-> margin, y |-> margin,
                       w |-> page_w - 2 * margin, h |-> rubric_h]]

\* The variant of RenderOutcome without the check for an empty picks/.
RenderOutcome_unchecked(pick_files, bad) ==
    IF bad # {} THEN "render_decode" ELSE "return"

\* how the call ends: "if not pick_files: raise", an image that fails to
\* open in the loop, or the return after the loop
RenderOutcome(pick_files, bad) ==
    IF pick_files = <<>> THEN "no_picks"
    ELSE IF bad # {} THEN "render_decode"
    ELSE "return"

\* the whole of tool_render_worksheet_pdfs: one saved document per pick file,
\* in the order of sorted(picks_dir.glob("pick_*.jpg")); a pick that does not
\* decode raises before its document is saved
RenderWorksheetPdfs ==
    /\ pc = "render"
    /\ \E pick_files \in {SortedNames(DOMAIN picks)} :
       \E bad \in {{i \in 1..Len(pick_files) : ~Scoreable(picks[pick_files[i]])}} :
       \E done \in {IF bad = {} THEN Len(pick_files)
                    ELSE (CHOOSE i \in bad : \A j \in bad : i <= j) - 1} :
       \E pages \in {[i \in 1..done |->
                        [reference |-> pick_files[i], image |-> picks[pick_files[i]],
                         layout |-> Layout(ImageOf(picks[pick_files[i]]).w,
                                           ImageOf(picks[pick_files[i]]).h)]]} :
       \E saved \in {[i \in 1..done |-> WorksheetName(i)]} :
          LET rank(n) == CHOOSE i \in 1..done : saved[i] = n
          IN  /\ sheets' = [n \in DOMAIN sheets \cup {saved[i] : i \in 1..done} |->
                               IF \E i \in 1..done : saved[i] = n
                               THEN pages[rank(n)] ELSE sheets[n]]
              /\ IF RenderOutcome(pick_files, bad) = "return"
                 THEN pc' = "approval" /\ err' = err
                 ELSE pc' = "failed" /\ err' = RenderOutcome(pick_files, bad)
    /\ UNCHANGED <<config, env_key, search_log, dirs, photos, idx, attempt, downloaded_paths,
                   manifest, log, raw, ok, picks, review>>

\* tool_write_approval_placeholder, and the end of main()
WriteApprovalPlaceholder ==
    /\ pc = "approval"
    /\ review' = ("approval.json" :>
                     [status |-> "PENDING", reviewer |-> "", notes |-> ""]) @@ review
    /\ pc' = "done"
    /\ UNCHANGED <<err, config, env_key, search_log, dirs, photos, idx, attempt,
                   downloaded_paths, manifest, log, raw, ok, picks, sheets>>

-----------------------------------------------------------------------------

Next ==
    \/ CreateRunFolders
    \/ GetPexelsKey
    \/ Search
    \/ SkipNoUrl
    \/ Fetch
    \/ WriteManifest
    \/ ScreenImages
    \/ SelectBestImages
    \/ RenderWorksheetPdfs
    \/ WriteApprovalPlaceholder

Spec == Init /\ [][Next]_vars

\* main() is one sequential process that keeps executing: every request has
\* a timeout and every sleep is finite, so a step that can be taken is taken
SpecLive == Spec /\ WF_vars(Next)

-----------------------------------------------------------------------------
(* A run whose search returned a full page.  The state is the one          *)
(* tool_download_pexels_images leaves when each of n results was fetched   *)
(* at the first attempt; screening, selection, rendering and the approval  *)
(* gate then run on it.  n ranges up to the largest page the search        *)
(* request asks for.                                                       *)

\* the image result i of a full page returned: all alike, or a mix in which
\* every fourth image is too small and the scores differ
PageImage(i, mixed) ==
    IF ~mixed THEN 5
    ELSE CASE i % 4 = 1 -> 4
           [] i % 4 = 2 -> 5
           [] i % 4 = 3 -> 2
           [] OTHER -> 6

InitFullPage ==
    \E n \in 1..PerPageMax, mixed \in BOOLEAN :
        LET names == {RawName(i) : i \in 1..n}
            pos(nm) == CHOOSE i \in 1..n : RawName(i) = nm
            m == [requested |-> n, downloaded |-> n,
                  items |-> [i \in 1..n |->
                                [index |-> i, pexels_id |-> i,
                                 local_file |-> LocalFile(RawName(i))]]]
        IN  /\ pc = "screen"
            /\ err = "none"
            /\ config = [candidates_to_download |-> n, sheets_to_generate |-> n]
            /\ env_key = "secret"
            /\ search_log = <<[status |-> 200, results |-> n]>>
            /\ dirs = Subareas
            /\ photos = [i \in 1..n |-> [has_url |-> TRUE]]
            /\ idx = n + 1
            /\ attempt = 1
            /\ downloaded_paths = [i \in 1..n |-> RawName(i)]
            /\ manifest = m
            /\ log = [i \in 1..n |-> <<i, 200>>]
            /\ raw = [nm \in names |-> PageImage(pos(nm), mixed)]
            /\ ok = EmptyDir
            /\ picks = EmptyDir
            /\ sheets = EmptyDir
            /\ review = ("pexels_manifest.json" :> m) @@ EmptyDir

NextFullPage ==
    \/ ScreenImages
    \/ SelectBestImages
    \/ RenderWorksheetPdfs
    \/ WriteApprovalPlaceholder

SpecFullPage == InitFullPage /\ [][NextFullPage]_vars

-----------------------------------------------------------------------------
(* tool_create_run_folders called on a run directory in any state *)

\* one artifact per subarea, as a run leaves them
SampleContents(name) ==
    CASE name = "raw" -> (RawName(1) :> 5) @@ EmptyDir
      [] name = "ok" -> (RawName(1) :> 5) @@ EmptyDir
      [] name = "picks" -> (PickName(1) :> 5) @@ EmptyDir
      [] name = "sheets" ->
            (WorksheetName(1) :> [reference |-> PickName(1), image |-> 5,
                                  layout |-> Layout(1600, 2000)]) @@ EmptyDir
      [] name = "review" ->
            ("approval.json" :> [status |-> "PENDING", reviewer |-> "", notes |-> ""])
               @@ EmptyDir

\* the call finds any subset of the subareas, each empty or holding a file
InitProvision ==
    /\ pc = "create_run_folders"
    /\ err = "none"
    /\ config \in [candidates_to_download : {1}, sheets_to_generate : {1}]
    /\ env_key = "secret"
    /\ search_log = <<>>
    /\ dirs \in SUBSET Subareas
    /\ \E filled \in SUBSET dirs :
          /\ raw = IF "raw" \in filled THEN SampleContents("raw") ELSE EmptyDir
          /\ ok = IF "ok" \in filled THEN SampleContents("ok") ELSE EmptyDir
          /\ picks = IF "picks" \in filled THEN SampleContents("picks") ELSE EmptyDir
          /\ sheets = IF "sheets" \in filled THEN SampleContents("sheets") ELSE EmptyDir
          /\ review = IF "review" \in filled THEN SampleContents("review") ELSE EmptyDir
    /\ photos = <<>>
    /\ idx = 0
    /\ attempt = 0
    /\ downloaded_paths = <<>>
    /\ manifest = [requested |-> 0, downloaded |-> 0, items |-> <<>>]
    /\ log = <<>>

NextProvision == CreateRunFolders

SpecProvision == InitProvision /\ [][NextProvision]_vars

-----------------------------------------------------------------------------
(* tool_render_worksheet_pdfs called on a run directory whose picks/ holds *)
(* one image of any size                                                   *)

InitLayout ==
    /\ pc = "render"
    /\ err = "none"
    /\ config \in [candidates_to_download : {1}, sheets_to_generate : {1}]
    /\ env_key = "secret"
    /\ search_log = <<>>
    /\ dirs = Subareas
    /\ \E w \in 1..MaxDim, h \in 1..MaxDim :
          picks = (PickName(1) :> SizedImage(w, h)) @@ EmptyDir
    /\ raw = EmptyDir
    /\ ok = EmptyDir
    /\ sheets = EmptyDir
    /\ review = EmptyDir
    /\ photos = <<>>
    /\ idx = 0
    /\ attempt = 0
    /\ downloaded_paths = <<>>
    /\ manifest = [requested |-> 0, downloaded |-> 0, items |-> <<>>]
    /\ log = <<>>

NextLayout == RenderWorksheetPdfs

SpecLayout == InitLayout /\ [][NextLayout]_vars

-----------------------------------------------------------------------------
(* Properties *)

Persisted(name) == name \in DOMAIN review

\* tool_download_pexels_images returned to main()
AcquisitionReturned ==
    \/ pc \in {"screen", "select", "render", "approval", "done"}
    \/ pc = "failed" /\ err \in {"select_decode", "render_decode", "no_picks"}

\* tool_download_pexels_images raised
AcquisitionRaised ==
    pc = "failed" /\ err \in {"search_http", "no_results", "fetch_http"}

\* tool_select_best_images returned or raised
SelectionEnded ==
    \/ pc \in {"render", "approval", "done"}
    \/ pc = "failed" /\ err \in {"select_decode", "render_decode", "no_picks"}

\* the number of 429 responses to the requests for result i
Count429(i) == Cardinality({k \in 1..Len(log) : log[k] = <<i, 429>>})

Saved200(i) == \E k \in 1..Len(log) : log[k] = <<i, 200>>

\* the names pick_01.jpg .. pick_99.jpg and worksheet_01.pdf .. worksheet_99.pdf
ExpectedPick(i) == [stem |-> "pick_", digits |-> <<i \div 10, i % 10>>, ext |-> ".jpg"]
ExpectedSheet(i) ==
    [stem |-> "worksheet_", digits |-> <<i \div 10, i % 10>>, ext |-> ".pdf"]

\* the screening condition of the specification, on exact integers
MeetsThresholds(w, h) ==
    /\ (IF w <= h THEN w ELSE h) >= 1600
    /\ 2 * (IF w <= h THEN h ELSE w) <= 5 * (IF w <= h THEN w ELSE h)

(* C1, as stated: no response to an image fetch, a third 429 or any other  *)
(* HTTP error status, makes acquisition fail; once an image fetch has been *)
(* issued the acquisition does not end by raising.                         *)
C1_NoFetchFailureIsFatal ==
    ~(AcquisitionRaised /\ log # <<>>)

(* C1, amended: three 429 responses on one image skip only that image:     *)
(* no file is written for it, the loop goes on to the next result, and     *)
(* when no fetch returned another error status the manifest is written and *)
(* acquisition returns with every result handled.  Another HTTP error      *)
(* status on a fetch is the only way a fetch makes acquisition raise; it   *)
(* ends the run at that request and no manifest is written.                *)
C1_OnlyRateLimitExhaustionIsSkipped ==
    /\ \A k \in 1..Len(log) :
          log[k][2] \notin {200, 429} =>
             /\ k = Len(log)
             /\ pc = "failed" /\ err = "fetch_http"
             /\ ~Persisted("pexels_manifest.json")
    /\ err = "fetch_http" => log # <<>> /\ log[Len(log)][2] \notin {200, 429}
    /\ \A i \in 1..Len(photos) :
          /\ Count429(i) <= 3
          /\ Count429(i) = 3 =>
                /\ RawName(i) \notin DOMAIN raw
                /\ ~Saved200(i)
                /\ idx > i
    /\ AcquisitionReturned =>
          /\ Persisted("pexels_manifest.json")
          /\ \A i \in 1..Len(photos) :
                photos[i].has_url =>
                   /\ Saved200(i) \/ Count429(i) = 3
                   /\ Saved200(i) <=> RawName(i) \in DOMAIN raw

\* C1: the first image was given up after three 429 responses, the second
\* was saved, and acquisition returned with its manifest
C1_Witness ==
    /\ AcquisitionReturned
    /\ Count429(1) = 3
    /\ RawName(2) \in DOMAIN raw
    /\ RawName(1) \notin DOMAIN raw
    /\ Persisted("pexels_manifest.json")

(* C2: once acquisition has ended, by return or by a raised error, raw/    *)
(* holds at most candidates_to_download files, every file of raw/ has      *)
(* exactly one entry of the persisted manifest with its path as            *)
(* local_file, and the manifest's downloaded count is the number of files. *)
C2_FilesMatchManifest ==
    (AcquisitionReturned \/ AcquisitionRaised) =>
       /\ Cardinality(DOMAIN raw) <= config.candidates_to_download
       /\ \A f \in DOMAIN raw :
             /\ Persisted("pexels_manifest.json")
             /\ Cardinality({k \in 1..Len(review["pexels_manifest.json"].items) :
                   review["pexels_manifest.json"].items[k].local_file
                       = [dir |-> "raw", name |-> f]}) = 1
       /\ Persisted("pexels_manifest.json") =>
             review["pexels_manifest.json"].downloaded = Cardinality(DOMAIN raw)

(* C3: after screening, every .jpg of raw/ is in exactly one of the        *)
(* report's lists passed and failed, exactly once, the lists name no other *)
(* file, and screening always returns with its report, whatever the mix of *)
(* images.                                                                 *)
C3_ScreeningPartitionsRaw ==
    /\ (AcquisitionReturned /\ pc # "screen") => Persisted("screening_report.json")
    /\ Persisted("screening_report.json") =>
          LET r == review["screening_report.json"]
          IN  /\ Files(r.passed) \cup Files(r.failed) = DOMAIN raw
              /\ Len(r.passed) + Len(r.failed) = Cardinality(DOMAIN raw)
              /\ Files(r.passed) \cap Files(r.failed) = {}

\* C3: screening returned on an undecodable image next to one that passed
C3_Witness ==
    /\ Persisted("screening_report.json")
    /\ \E f \in DOMAIN raw : ~Images[raw[f]].header
    /\ review["screening_report.json"].passed # <<>>
    /\ review["screening_report.json"].failed # <<>>

(* C4: a decodable raw image of width w and height h is listed as passed   *)
(* and copied unchanged into ok/ under its own name iff min(w,h) >= 1600   *)
(* and max(w,h)/min(w,h) <= 2.5, the ratio unrounded; no other image is    *)
(* ever in ok/.                                                            *)
C4_PassIffThresholds ==
    /\ \A f \in DOMAIN ok :
          /\ f \in DOMAIN raw
          /\ Images[raw[f]].header
          /\ MeetsThresholds(Images[raw[f]].w, Images[raw[f]].h)
    /\ Persisted("screening_report.json") =>
          \A f \in DOMAIN raw :
             Images[raw[f]].header =>
                (MeetsThresholds(Images[raw[f]].w, Images[raw[f]].h)
                   <=> /\ f \in Files(review["screening_report.json"].passed)
                       /\ f \in DOMAIN ok
                       /\ ok[f] = raw[f])

\* C4: screening passed the image of ratio exactly 2.5 and short side
\* exactly 1600 and rejected the one of ratio 4001/1600
C4_Witness ==
    /\ Persisted("screening_report.json")
    /\ \E f \in DOMAIN ok : Images[ok[f]].w = 1600 /\ Images[ok[f]].h = 4000
    /\ \E f \in DOMAIN raw \ DOMAIN ok : Images[raw[f]].w = 4001

(* C5, as stated: for every sheets_to_generate, 0 and negative values      *)
(* included, and every number n of images in ok/, the selected list and    *)
(* picks/ hold min(sheets_to_generate, n) entries.                         *)
C5_SelectedIsMinOfSheetsAndInput ==
    Persisted("selection_report.json") =>
       LET n    == Cardinality(DOMAIN ok)
           want == IF config.sheets_to_generate <= n
                   THEN config.sheets_to_generate ELSE n
       IN  /\ Len(review["selection_report.json"].selected) = want
           /\ Cardinality(DOMAIN picks) = want

(* C5, amended: whenever selection returns, the selected list and picks/   *)
(* hold min(max(1, sheets_to_generate), n) entries, n the number of images *)
(* in ok/; picks/ is empty as long as selection has not returned.          *)
C5_SelectedIsMinOfFlooredSheetsAndInput ==
    LET n     == Cardinality(DOMAIN ok)
        floor == IF config.sheets_to_generate >= 1
                 THEN config.sheets_to_generate ELSE 1
        want  == IF floor <= n THEN floor ELSE n
    IN  IF Persisted("selection_report.json")
        THEN /\ Len(review["selection_report.json"].selected) = want
             /\ Cardinality(DOMAIN picks) = want
             /\ review["selection_report.json"].target_count = floor
        ELSE DOMAIN picks = {}

\* C5: selection returned one pick although sheets_to_generate is below 1
C5_Witness ==
    /\ Persisted("selection_report.json")
    /\ config.sheets_to_generate <= 0
    /\ Cardinality(DOMAIN ok) >= 1
    /\ Len(review["selection_report.json"].selected) = 1
    /\ Cardinality(DOMAIN picks) = 1

(* C6: when ok/ is empty as selection begins, selection fails with a fatal *)
(* error, returns no report and writes no selection_report.json; when ok/  *)
(* holds an image, selection does not fail.                                *)
C6_EmptyInputIsFatal ==
    SelectionEnded =>
       IF DOMAIN ok = {}
       THEN /\ pc = "failed"
            /\ err \notin {"no_picks", "render_decode"}
            /\ ~Persisted("selection_report.json")
       ELSE ~(pc = "failed" /\ err = "select_decode")

(* C7: after selection, the selected list is the first K entries of the    *)
(* ranked list all_scored, picks/ holds exactly pick_01 .. pick_K, and     *)
(* pick_i is a byte copy of the ok/ file the i-th ranked entry names,      *)
(* whatever that file's candidate number.                                  *)
C7_PicksAreRankedPrefix ==
    Persisted("selection_report.json") =>
       LET r == review["selection_report.json"]
           K == Len(r.selected)
       IN  /\ K <= Len(r.all_scored)
           /\ r.selected = SubSeq(r.all_scored, 1, K)
           /\ Files(r.all_scored) = DOMAIN ok
           /\ Len(r.all_scored) = Cardinality(DOMAIN ok)
           /\ DOMAIN picks = {ExpectedPick(i) : i \in 1..K}
           /\ \A i \in 1..K :
                 /\ picks[ExpectedPick(i)] = ok[r.all_scored[i].file]
                 /\ r.selected[i].picked_as = ExpectedPick(i)

\* C7: two picks, of which the first is the second candidate
C7_Witness ==
    /\ Persisted("selection_report.json")
    /\ Len(review["selection_report.json"].selected) = 2
    /\ review["selection_report.json"].selected[1].file.digits = <<0, 0, 0, 2>>
    /\ picks[ExpectedPick(1)] # picks[ExpectedPick(2)]

\* tool_render_worksheet_pdfs returned or raised
RenderEnded ==
    \/ pc \in {"approval", "done"}
    \/ pc = "failed" /\ err \in {"no_picks", "render_decode"}

(* C8: when selection left K >= 1 picks, rendering returns and sheets/     *)
(* holds exactly worksheet_01 .. worksheet_K, worksheet i rendered from    *)
(* pick_i, the copy of the image of rank i, for every K up to a full       *)
(* search page and whatever candidate numbers are missing.                 *)
C8_WorksheetPerPickByRank ==
    (RenderEnded /\ DOMAIN picks # {}) =>
       LET K == Cardinality(DOMAIN picks)
           r == review["selection_report.json"]
       IN  /\ pc # "failed"
           /\ DOMAIN sheets = {ExpectedSheet(i) : i \in 1..K}
           /\ \A i \in 1..K :
                 /\ sheets[ExpectedSheet(i)].reference = ExpectedPick(i)
                 /\ sheets[ExpectedSheet(i)].image = picks[ExpectedPick(i)]
                 /\ sheets[ExpectedSheet(i)].image = ok[r.all_scored[i].file]

\* C8: a finished run with ten or more worksheets in which candidate 3 was
\* screened out and the best pick is not the first candidate
C8_Witness ==
    /\ pc = "done"
    /\ Cardinality(DOMAIN sheets) >= 10
    /\ RawName(3) \in DOMAIN raw \ DOMAIN ok
    /\ RawName(4) \in DOMAIN ok
    /\ review["selection_report.json"].selected[1].file # RawName(1)

(* C9, as stated: the reason of every failed entry is exactly one of the   *)
(* strings resolution_too_low, extreme_aspect_ratio, unreadable_image, and *)
(* no passed entry has a reason.                                           *)
C9_ReasonIsOneOfThreeStrings ==
    Persisted("screening_report.json") =>
       LET r == review["screening_report.json"]
       IN  /\ \A k \in 1..Len(r.failed) :
                 /\ "reason" \in DOMAIN r.failed[k]
                 /\ r.failed[k].reason \in {<<"resolution_too_low">>,
                                            <<"extreme_aspect_ratio">>,
                                            <<"unreadable_image">>}
           /\ \A k \in 1..Len(r.passed) : "reason" \notin DOMAIN r.passed[k]

(* C9, amended: the reason of every failed entry is exactly                *)
(* resolution_too_low or extreme_aspect_ratio, or it is the text           *)
(* "unreadable_image: " followed by the decoder's error message; no passed *)
(* entry has a reason.                                                     *)
C9_ReasonIsLabelOrUnreadableWithMessage ==
    Persisted("screening_report.json") =>
       LET r == review["screening_report.json"]
       IN  /\ \A k \in 1..Len(r.failed) :
                 /\ "reason" \in DOMAIN r.failed[k]
                 /\ \/ r.failed[k].reason \in {<<"resolution_too_low">>,
                                               <<"extreme_aspect_ratio">>}
                    \/ /\ Len(r.failed[k].reason) = 2
                       /\ r.failed[k].reason[1] = "unreadable_image: "
                       /\ r.failed[k].reason[2] = Images[raw[r.failed[k].file]].msg
           /\ \A k \in 1..Len(r.passed) : "reason" \notin DOMAIN r.passed[k]

\* C9: a report with an undecodable image among the failed and a passed image
C9_Witness ==
    /\ Persisted("screening_report.json")
    /\ \E k \in 1..Len(review["screening_report.json"].failed) :
          review["screening_report.json"].failed[k].reason[1] = "unreadable_image: "
    /\ review["screening_report.json"].passed # <<>>

(* C10: every input a stage does not forward is in that stage's persisted  *)
(* report with a reason: a search result without a file in raw/ in the     *)
(* manifest, a raw image without a copy in ok/ in the screening report, a  *)
(* screened image without a pick in the selection report.                  *)
C10_EveryDiscardHasAReason ==
    /\ Persisted("pexels_manifest.json") =>
          \A i \in 1..Len(photos) :
             RawName(i) \notin DOMAIN raw =>
                \E k \in 1..Len(review["pexels_manifest.json"].items) :
                   /\ review["pexels_manifest.json"].items[k].index = i
                   /\ "reason" \in DOMAIN review["pexels_manifest.json"].items[k]
    /\ Persisted("screening_report.json") =>
          \A f \in DOMAIN raw \ DOMAIN ok :
             \E k \in 1..Len(review["screening_report.json"].failed) :
                /\ review["screening_report.json"].failed[k].file = f
                /\ "reason" \in DOMAIN review["screening_report.json"].failed[k]
    /\ Persisted("selection_report.json") =>
          \A f \in DOMAIN ok :
             (\A k \in 1..Len(review["selection_report.json"].selected) :
                 review["selection_report.json"].selected[k].file # f) =>
                \E k \in 1..Len(review["selection_report.json"].all_scored) :
                   /\ review["selection_report.json"].all_scored[k].file = f
                   /\ "reason" \in DOMAIN review["selection_report.json"].all_scored[k]

\* no subarea holds a file or a report
NoArtifacts ==
    \A name \in Subareas : Contents(name) = EmptyDir

(* C11: when the search request succeeds and returns no result, the run    *)
(* ends with a fatal error before any image fetch: the five subareas exist *)
(* and are still empty, and no later stage has run.                        *)
C11_ZeroResultsIsFatalBeforeAnyFetch ==
    \A k \in 1..Len(search_log) :
       (search_log[k].status = 200 /\ search_log[k].results = 0) =>
          /\ pc = "failed" /\ err = "no_results"
          /\ log = <<>>
          /\ dirs = Subareas
          /\ NoArtifacts

C11_Witness ==
    /\ search_log = <<[status |-> 200, results |-> 0]>>
    /\ pc = "failed"
    /\ config.candidates_to_download > 0

(* C12: when PEXELS_API_KEY is unset or empty the run ends with a fatal    *)
(* error before any network request; all it leaves behind is the run       *)
(* directory with its five empty subareas.                                 *)
C12_MissingKeyIsFatalBeforeAnyRequest ==
    env_key \in {Unset, ""} =>
       /\ search_log = <<>>
       /\ log = <<>>
       /\ NoArtifacts
       /\ pc \in {"create_run_folders", "get_pexels_key", "failed"}
       /\ pc # "create_run_folders" => dirs = Subareas
       /\ pc = "failed" => err = "no_key"

C12_Witness ==
    /\ env_key = ""
    /\ pc = "failed" /\ err = "no_key"
    /\ dirs = Subareas

\* the name pexels_0001.jpg .. pexels_9999.jpg of position i
ExpectedRaw(i) ==
    [stem |-> "pexels_",
     digits |-> <<i \div 1000, (i \div 100) % 10, (i \div 10) % 10, i % 10>>,
     ext |-> ".jpg"]

(* C13: a search result without any of the accepted URL variants causes no *)
(* fetch, no file, no manifest entry, no increment of the downloaded count *)
(* and no failure.  Files are named by the 1-based position of the result  *)
(* in the truncated list: the names have gaps at skipped results and are   *)
(* not renumbered.                                                         *)
C13_NoUrlResultIsSkippedAndNamesKeepPosition ==
    /\ \A i \in 1..Len(photos) :
          ~photos[i].has_url =>
             /\ \A k \in 1..Len(log) : log[k][1] # i
             /\ ExpectedRaw(i) \notin DOMAIN raw
             /\ \A k \in 1..Len(manifest.items) : manifest.items[k].index # i
    /\ AcquisitionRaised /\ photos # <<>> =>
          idx <= Len(photos) /\ photos[idx].has_url
    /\ DOMAIN raw = {ExpectedRaw(i) : i \in {j \in 1..Len(photos) : Saved200(j)}}
    /\ Len(downloaded_paths) =
          Cardinality({i \in 1..Len(photos) : photos[i].has_url /\ Saved200(i)})
    /\ \A k \in 1..Len(manifest.items) :
          /\ manifest.items[k].local_file = LocalFile(ExpectedRaw(manifest.items[k].index))
          /\ downloaded_paths[k] = ExpectedRaw(manifest.items[k].index)
    /\ Persisted("pexels_manifest.json") =>
          review["pexels_manifest.json"].downloaded =
             Cardinality({i \in 1..Len(photos) : photos[i].has_url /\ Saved200(i)})

C13_Witness ==
    /\ Len(photos) = 2
    /\ ~photos[1].has_url
    /\ photos[2].has_url
    /\ DOMAIN raw = {ExpectedRaw(2)}
    /\ Persisted("pexels_manifest.json")
    /\ review["pexels_manifest.json"].downloaded = 1

\* every file of directory d is in d2 with the same content
Kept(d, d2) ==
    \A f \in DOMAIN d : f \in DOMAIN d2 /\ d2[f] = d[f]

\* the report a stage writes into review/, by the position of the run
OwnReports(at) ==
    CASE at = "download" -> {"pexels_manifest.json"}
      [] at = "screen" -> {"screening_report.json"}
      [] at = "select" -> {"selection_report.json"}
      [] at = "approval" -> {"approval.json"}
      [] OTHER -> {}

(* C14: no step overwrites or deletes an artifact that exists: every file  *)
(* of raw/, ok/, picks/, sheets/ and review/ is still there with the same  *)
(* content after the step.  raw/ changes only during acquisition, ok/ only *)
(* during screening, picks/ only during selection, sheets/ only during     *)
(* rendering, and the only file a stage adds to review/ is its own report. *)
C14_StagesWriteOnlyTheirOwnArea ==
    [][ /\ Kept(raw, raw') /\ Kept(ok, ok') /\ Kept(picks, picks')
        /\ Kept(sheets, sheets') /\ Kept(review, review')
        /\ raw' # raw => pc = "download"
        /\ ok' # ok => pc = "screen"
        /\ picks' # picks => pc = "select"
        /\ sheets' # sheets => pc = "render"
        /\ DOMAIN review' \ DOMAIN review \subseteq OwnReports(pc)
      ]_vars

C14_Witness ==
    /\ pc = "done"
    /\ raw # EmptyDir /\ ok # EmptyDir /\ picks # EmptyDir /\ sheets # EmptyDir
    /\ DOMAIN review = {"pexels_manifest.json", "screening_report.json",
                        "selection_report.json", "approval.json"}

(* C15: tool_create_run_folders is idempotent.  Called on a run directory  *)
(* in any state, also one where all five subareas exist and hold files, it *)
(* raises no error, leaves exactly the five subareas raw, ok, picks,       *)
(* sheets and review, and leaves every file in them unchanged; when the    *)
(* five subareas exist already the call changes nothing.                   *)
C15_CreateRunFoldersIsIdempotent ==
    [][ pc = "create_run_folders" =>
          /\ pc' = "get_pexels_key" /\ err' = err
          /\ dirs' = Subareas
          /\ \A name \in dirs : Contents(name)' = Contents(name)
          /\ \A name \in Subareas \ dirs : Contents(name)' = EmptyDir
          /\ dirs = Subareas =>
                /\ dirs' = dirs
                /\ <<raw, ok, picks, sheets, review>>' = <<raw, ok, picks, sheets, review>>
      ]_vars

C15_Witness ==
    /\ pc = "get_pexels_key"
    /\ dirs = Subareas
    /\ \A name \in Subareas : Contents(name) = SampleContents(name)

\* the positions in the log of the requests for result i
Requests(i) == {k \in 1..Len(log) : log[k][1] = i}

\* the fetch loop is over: acquisition returned, or raised in the loop
FetchLoopEnded ==
    \/ AcquisitionReturned
    \/ pc = "failed" /\ err = "fetch_http"

\* what holds of the requests for one result whatever the run does: at most
\* three, a repeated one only after 429 responses, none after a third 429
RetryDiscipline(i) ==
    /\ Cardinality(Requests(i)) <= 3
    /\ \A k \in Requests(i) : \A j \in Requests(i) : j < k => log[j][2] = 429
    /\ Count429(i) = 3 =>
          /\ ExpectedRaw(i) \notin DOMAIN raw
          /\ \A k \in 1..Len(manifest.items) : manifest.items[k].index # i
          /\ idx > i
          /\ ~(pc = "failed" /\ err = "fetch_http" /\ log[Len(log)][1] = i)

(* C16, as stated: every search result that has an image URL gets at least *)
(* one and at most three fetch requests, a repeated request only after 429 *)
(* responses, and after a third 429 it has no file and no manifest entry   *)
(* and acquisition goes on to the next result.                             *)
C16_EveryUrlResultIsFetchedOneToThreeTimes ==
    \A i \in 1..Len(photos) :
       photos[i].has_url =>
          /\ FetchLoopEnded => Cardinality(Requests(i)) >= 1
          /\ RetryDiscipline(i)

(* C16, amended: every search result with an image URL that the fetch loop *)
(* reaches gets at least one and at most three requests, and when          *)
(* acquisition returns the loop has reached every result.  A fetch that    *)
(* returns an HTTP error status other than 429 ends acquisition, and the   *)
(* results after it get no request.  A repeated request is issued only     *)
(* after 429 responses; after a third 429 there is no file and no manifest *)
(* entry for the image and the loop is at a later result.                  *)
C16_ReachedUrlResultIsFetchedOneToThreeTimes ==
    \A i \in 1..Len(photos) :
       /\ ~photos[i].has_url => Requests(i) = {}
       /\ photos[i].has_url =>
             /\ (pc = "download" /\ idx > i) => Cardinality(Requests(i)) >= 1
             /\ AcquisitionReturned => Cardinality(Requests(i)) >= 1
             /\ (pc = "failed" /\ err = "fetch_http") =>
                   /\ log[Len(log)][1] <= i => log[Len(log)][1] = i \/ Requests(i) = {}
                   /\ i <= log[Len(log)][1] => Cardinality(Requests(i)) >= 1
             /\ RetryDiscipline(i)

C16_Witness ==
    /\ Len(photos) = 2
    /\ photos[1].has_url /\ photos[2].has_url
    /\ Count429(1) = 3
    /\ Cardinality(Requests(2)) = 2
    /\ Saved200(2)
    /\ AcquisitionReturned

\* the number in a name pexels_NNNN.jpg
CandidateNumber(name) ==
    name.digits[1] * 1000 + name.digits[2] * 100 + name.digits[3] * 10 + name.digits[4]

(* C17: the 'all_scored' list of the selection report holds every screened *)
(* image once, in the order of 'total' non-increasing, and two entries of  *)
(* equal 'total' stand in ascending order of their file names; the list is *)
(* therefore determined by the screened images and their scores, and the   *)
(* selected entries are its first entries.                                 *)
C17_AllScoredIsOrderedByTotalThenName ==
    Persisted("selection_report.json") =>
       LET r == review["selection_report.json"]
       IN  /\ {r.all_scored[k].file : k \in 1..Len(r.all_scored)} = DOMAIN ok
           /\ Len(r.all_scored) = Cardinality(DOMAIN ok)
           /\ \A a \in 1..Len(r.all_scored) : \A b \in 1..Len(r.all_scored) :
                 a < b =>
                    /\ r.all_scored[a].total >= r.all_scored[b].total
                    /\ r.all_scored[a].total = r.all_scored[b].total =>
                          CandidateNumber(r.all_scored[a].file)
                             < CandidateNumber(r.all_scored[b].file)
           /\ \A k \in 1..Len(r.selected) :
                 r.selected[k].file = r.all_scored[k].file

C17_Witness ==
    /\ Persisted("selection_report.json")
    /\ Len(review["selection_report.json"].all_scored) = 2
    /\ review["selection_report.json"].all_scored[1].total
          = review["selection_report.json"].all_scored[2].total
    /\ ok[review["selection_report.json"].all_scored[1].file]
          # ok[review["selection_report.json"].all_scored[2].file]

\* the position of the run in main(), numbered in the order of the calls
PcRank(at) ==
    CASE at = "create_run_folders" -> 1
      [] at = "get_pexels_key" -> 2
      [] at = "search" -> 3
      [] at = "download" -> 4
      [] at = "screen" -> 5
      [] at = "select" -> 6
      [] at = "render" -> 7
      [] at = "approval" -> 8
      [] at = "done" -> 9
      [] OTHER -> 0

(* C18: the stages run strictly in the order acquire, screen, select,      *)
(* render, approval.  Every step either stays in the fetch loop, goes on   *)
(* to the next stage or ends the run with a fatal error, and after a fatal *)
(* error there is no further step.  A stage's output exists only when the  *)
(* report of the stage before it is written.  The approval record exists   *)
(* only after rendering wrote at least one worksheet; it is written once,  *)
(* with status PENDING and empty reviewer and notes, and no later step     *)
(* changes it.                                                             *)
C18_StagesRunInOrderAndApprovalIsLast ==
    /\ [](/\ (ok # EmptyDir \/ Persisted("screening_report.json")) =>
                Persisted("pexels_manifest.json")
          /\ (picks # EmptyDir \/ Persisted("selection_report.json")) =>
                Persisted("screening_report.json")
          /\ sheets # EmptyDir => Persisted("selection_report.json")
          /\ Persisted("approval.json") =>
                /\ pc = "done"
                /\ sheets # EmptyDir
                /\ Cardinality(DOMAIN sheets) = Cardinality(DOMAIN picks)
                /\ review["approval.json"] =
                      [status |-> "PENDING", reviewer |-> "", notes |-> ""]
          /\ pc = "done" => Persisted("approval.json"))
    /\ [][ /\ pc \notin {"failed", "done"}
           /\ \/ pc' = "failed"
              \/ PcRank(pc') = PcRank(pc) + 1
              \/ pc = "download" /\ pc' = "download"
           /\ Persisted("approval.json")' => ~Persisted("approval.json")
         ]_vars

C18_Witness ==
    /\ pc = "done"
    /\ Persisted("approval.json")
    /\ review["approval.json"].status = "PENDING"
    /\ Cardinality(DOMAIN sheets) = 2

(* C19: whatever the search returns and whatever the fetches answer, also  *)
(* 429 to every request, the run eventually ends, completed or aborted by  *)
(* a fatal error; a completed run has the approval record with status      *)
(* PENDING; and the run never issues more than three fetch requests per    *)
(* requested candidate in total.                                           *)
C19_RunTerminatesWithBoundedFetches ==
    /\ <>(pc \in {"done", "failed"})
    /\ [](pc = "done" =>
             /\ Persisted("approval.json")
             /\ review["approval.json"].status = "PENDING")
    /\ [](Len(log) <= 3 * config.candidates_to_download)

C19_Witness ==
    /\ pc \in {"done", "failed"}
    /\ config.candidates_to_download = 2
    /\ Len(log) = 3 * config.candidates_to_download
    /\ \A k \in 1..Len(log) : log[k][2] = 429

\* two outlined rectangles with no common point
Apart(a, b) ==
    \/ a.x + a.w < b.x
    \/ b.x + b.w < a.x
    \/ a.y + a.h < b.y
    \/ b.y + b.h < a.y

\* a fraction n / d against an integer
AtLeast(q, k) == q.n >= k * q.d
AtMost(q, k) == q.n <= k * q.d

====
